---------------------------- MODULE Spec2Model ----------------------------
(***************************************************************************)
(* Caret edge detection and caret placement (isHorizontalEdge,             *)
(* getVerticalEdge, placeCaretAtHorizontalEdge, caretRangeFromPoint,       *)
(* placeCaretAtVerticalEdge) over an abstract DOM, and the attribute       *)
(* handlers of the image block (ImageBlock).                               *)
(*                                                                         *)
(* The DOM is a tree of nodes numbered in document order: a node's parent  *)
(* has a smaller number and siblings are ordered by number.  Pixel         *)
(* coordinates are integers; the code's "height / 2" is kept exact by      *)
(* comparing doubled quantities.  JavaScript is single threaded: while a   *)
(* call to placeCaretAtVerticalEdge is in progress (pc # "idle") only its  *)
(* own steps are enabled.                                                  *)
(***************************************************************************)
EXTENDS Integers, Sequences, FiniteSets

VARIABLES
    dom,            \* the node tree: parent, nodeType, tagName, isContentEditable, text, value
    container,      \* the focusable element the host passes to the functions
    selection,      \* window.getSelection(): the sequence of its ranges
    inputSel,       \* container.selectionStart / selectionEnd of the INPUT or TEXTAREA
    activeElement,  \* document.activeElement (Null: nothing focused)
    zIndex,         \* container.style.zIndex
    scroll,         \* where the viewport stands relative to the container
    api,            \* which point-resolution API the document offers
    hit,            \* what the document's point resolution answers, per viewport position
    pc,             \* position inside placeCaretAtVerticalEdge ("idle": no call in progress)
    call,           \* the operation called last and its arguments
    ret,            \* what the last edge query returned
    range,          \* the local `range` of placeCaretAtVerticalEdge
    depth,          \* nesting depth of placeCaretAtVerticalEdge
    scrolls,        \* calls of scrollIntoView made by the running top-level call
    threw,          \* the last call ended with an exception
    calls,          \* number of calls the two-call driver has started
    first,          \* selection left by the driver's first call
    attributes,     \* ImageBlock: this.props.attributes
    focus,          \* ImageBlock: this.props.focus
    image,          \* ImageBlock: ImageSize reports an imageWidthWithinContainer
    geometry        \* the layout answers getVerticalEdge is given in SpecVertical

domVars   == <<dom, container, api, hit, geometry>>
selVars   == <<selection, inputSel, activeElement, zIndex, scroll>>
callVars  == <<pc, call, ret, range, depth, scrolls, threw>>
twiceVars == <<calls, first>>
imageVars == <<attributes, focus, image>>
vars      == <<dom, container, selection, inputSel, activeElement, zIndex, scroll,
               api, hit, pc, call, ret, range, depth, scrolls, threw, calls, first,
               attributes, focus, image, geometry>>

----------------------------------------------------------------------------
(* Bounds *)

MaxNode == 5    \* rich-container trees have the nodes 1 .. MaxNode
MaxLength == 2  \* text nodes hold 0 .. MaxLength characters
MaxValue == 5   \* input values hold 0 .. MaxValue characters
MaxCoord == 3   \* rectangle tops and heights range over 0 .. MaxCoord
MaxSize == 2    \* image widths and heights range over 1 .. MaxSize

----------------------------------------------------------------------------
(* The DOM *)

Null == 0        \* no node: the parentNode of the document, no focused element
Document == 1    \* the root of every tree
Rich == 2        \* the content-editable container
Toolbar == 6     \* an element outside the containers, rendered above them
Input == 7       \* the INPUT container
Plain == 8       \* the non-editable container

Bool(b) == IF b THEN "true" ELSE "false"

Nodes(d) == DOMAIN d.parent

\* node.childNodes, in document order
Children(d, n) == {m \in Nodes(d) : d.parent[m] = n}

SetMin(S) == CHOOSE x \in S : \A y \in S : x <= y
SetMax(S) == CHOOSE x \in S : \A y \in S : y <= x

\* parentNode.firstChild / parentNode.lastChild; Null when there are no children
firstChild(d, n) == IF Children(d, n) = {} THEN Null ELSE SetMin(Children(d, n))
lastChild(d, n) == IF Children(d, n) = {} THEN Null ELSE SetMax(Children(d, n))

\* parentNode[ `${ order }Child` ]
orderChild(d, n, order) == IF order = "first" THEN firstChild(d, n) ELSE lastChild(d, n)

\* node.textContent.length: the text of the node and of all its descendants
RECURSIVE SumText(_, _)
SumText(d, S) ==
    IF S = {} THEN 0
    ELSE LET n == SetMin(S)
         IN  d.text[n] + SumText(d, (S \ {n}) \cup Children(d, n))

textContentLength(d, n) == SumText(d, {n})

\* container.contains( node ): node is the container or a descendant of it
RECURSIVE contains(_, _, _)
contains(d, c, n) ==
    IF n = c THEN TRUE
    ELSE IF n = Null \/ d.parent[n] = Null THEN FALSE
    ELSE contains(d, c, d.parent[n])

\* includes( [ 'INPUT', 'TEXTAREA' ], container.tagName )
isTextField(d, c) == d.tagName[c] \in {"INPUT", "TEXTAREA"}

\* A range: (startContainer, startOffset, endContainer, endOffset)
Range(sc, so, ec, eo) == [startContainer |-> sc, startOffset |-> so,
                          endContainer |-> ec, endOffset |-> eo]
Caret(n, o) == Range(n, o, n, o)

\* range.collapsed
collapsed(r) == r.startContainer = r.endContainer /\ r.startOffset = r.endOffset

\* The offsets a boundary point may have in node n
Offsets(d, n) ==
    IF d.nodeType[n] = "TEXT_NODE" THEN 0 .. d.text[n]
    ELSE 0 .. Cardinality(Children(d, n))

----------------------------------------------------------------------------
(* isHorizontalEdge *)

\* Faulty variant of the climb: reaches the container without testing the child links
climb_skipsLinkCheck(d, c, node, order) ==
    IF node = c THEN "true"
    ELSE IF d.parent[node] = Null THEN "TypeError"
    ELSE "true"

\* the while loop: climb from node to the container through order-child links
RECURSIVE climb(_, _, _, _)
climb(d, c, node, order) ==
    IF node = c THEN "true"
    ELSE LET parentNode == d.parent[node]
         IN  IF parentNode = Null THEN "TypeError"
             ELSE IF orderChild(d, parentNode, order) # node THEN "false"
             ELSE climb(d, c, parentNode, order)

isHorizontalEdge_rich(d, c, sel, isReverse) ==
    IF Len(sel) = 0 THEN "false"
    ELSE LET r == sel[1]
             order == IF isReverse THEN "first" ELSE "last"
             offset == IF isReverse THEN r.startOffset ELSE r.endOffset
             node == r.startContainer
         IN  IF ~collapsed(r) THEN "false"
             ELSE IF isReverse /\ offset # 0 THEN "false"
             ELSE IF ~isReverse /\ offset # textContentLength(d, node) THEN "false"
             ELSE climb(d, c, node, order)

\* Faulty variant of the text-field branch: tests offset 0 in both directions
isHorizontalEdge_forwardAtZero(d, c, isel, isReverse) ==
    IF isel.selectionStart # isel.selectionEnd THEN "false"
    ELSE Bool(isel.selectionStart = 0)

isHorizontalEdge_field(d, c, isel, isReverse) ==
    IF isel.selectionStart # isel.selectionEnd THEN "false"
    ELSE IF isReverse THEN Bool(isel.selectionStart = 0)
    ELSE Bool(d.value[c] = isel.selectionStart)

isHorizontalEdge(d, c, sel, isel, isReverse) ==
    IF isTextField(d, c) THEN isHorizontalEdge_field(d, c, isel, isReverse)
    ELSE IF ~d.isContentEditable[c] THEN "true"
    ELSE isHorizontalEdge_rich(d, c, sel, isReverse)

----------------------------------------------------------------------------
(* getVerticalEdge *)

NoRect == <<>>
Rect(top, height, left, width) == [top |-> top, height |-> height, left |-> left, width |-> width]
bottom(rect) == rect.top + rect.height

\* twice the code's `buffer = rangeRect.height / 2`
buffer2(rect) == rect.height

\* "Too low": isReverse && rangeRect.top - buffer > editableRect.top
tooLow(rangeRect, editableRect) ==
    2 * rangeRect.top - buffer2(rangeRect) > 2 * editableRect.top

\* "Too high": ! isReverse && rangeRect.bottom + buffer < editableRect.bottom
tooHigh(rangeRect, editableRect) ==
    2 * bottom(rangeRect) + buffer2(rangeRect) < 2 * bottom(editableRect)

\* The caret rectangle: the start container's own box when it is an element,
\* else the first client rectangle of the range (none when the list is empty)
rangeRectOf(d, r, boundingRect, clientRects) ==
    IF d.nodeType[r.startContainer] = "ELEMENT_NODE" THEN <<boundingRect>>
    ELSE IF Len(clientRects) = 0 THEN NoRect
    ELSE <<clientRects[1]>>

\* Faulty variant of the content-editable branch: compares without the buffer
getVerticalEdge_noBuffer(d, sel, isReverse, boundingRect, clientRects, editableRect) ==
    IF Len(sel) = 0 THEN [isEdge |-> "false", rect |-> NoRect]
    ELSE IF ~collapsed(sel[1]) THEN [isEdge |-> "false", rect |-> NoRect]
    ELSE LET rr == rangeRectOf(d, sel[1], boundingRect, clientRects)
         IN  IF rr = NoRect THEN [isEdge |-> "false", rect |-> NoRect]
             ELSE IF isReverse /\ rr[1].top > editableRect.top
                  THEN [isEdge |-> "false", rect |-> rr]
             ELSE IF ~isReverse /\ bottom(rr[1]) < bottom(editableRect)
                  THEN [isEdge |-> "false", rect |-> rr]
             ELSE [isEdge |-> "true", rect |-> rr]

getVerticalEdge_rich(d, sel, isReverse, boundingRect, clientRects, editableRect) ==
    IF Len(sel) = 0 THEN [isEdge |-> "false", rect |-> NoRect]
    ELSE IF ~collapsed(sel[1]) THEN [isEdge |-> "false", rect |-> NoRect]
    ELSE LET rr == rangeRectOf(d, sel[1], boundingRect, clientRects)
         IN  IF rr = NoRect THEN [isEdge |-> "false", rect |-> NoRect]
             ELSE IF isReverse /\ tooLow(rr[1], editableRect)
                  THEN [isEdge |-> "false", rect |-> rr]
             ELSE IF ~isReverse /\ tooHigh(rr[1], editableRect)
                  THEN [isEdge |-> "false", rect |-> rr]
             ELSE [isEdge |-> "true", rect |-> rr]

getVerticalEdge(d, c, sel, isel, isReverse, boundingRect, clientRects, editableRect) ==
    IF isTextField(d, c)
    THEN [isEdge |-> isHorizontalEdge(d, c, sel, isel, isReverse), rect |-> NoRect]
    ELSE IF ~d.isContentEditable[c] THEN [isEdge |-> "true", rect |-> NoRect]
    ELSE getVerticalEdge_rich(d, sel, isReverse, boundingRect, clientRects, editableRect)

----------------------------------------------------------------------------
(* placeCaretAtHorizontalEdge *)

\* sel.removeAllRanges(); sel.addRange( range )
removeAllRanges(sel) == <<>>
addRange(sel, r) == Append(sel, r)

\* range.selectNodeContents( container )
selectNodeContents(d, c) == Range(c, 0, c, Cardinality(Children(d, c)))

\* range.collapse( toStart )
collapse(r, toStart) ==
    IF toStart THEN Caret(r.startContainer, r.startOffset)
    ELSE Caret(r.endContainer, r.endOffset)

\* The whole function, as the effect it has on the selection state
placeCaretAtHorizontalEdge(c, isReverse) ==
    IF isTextField(dom, c)
    THEN /\ activeElement' = c
         /\ inputSel' = IF isReverse
                        THEN [selectionStart |-> 0, selectionEnd |-> 0]
                        ELSE [selectionStart |-> dom.value[c], selectionEnd |-> dom.value[c]]
         /\ selection' = selection
    ELSE IF ~dom.isContentEditable[c]
    THEN /\ activeElement' = c
         /\ inputSel' = inputSel
         /\ selection' = selection
    ELSE /\ selection' = addRange(removeAllRanges(selection),
                                  collapse(selectNodeContents(dom, c), isReverse))
         /\ activeElement' = c
         /\ inputSel' = inputSel

----------------------------------------------------------------------------
(* caretRangeFromPoint and placeCaretAtVerticalEdge *)

Elevated == "10000"

ScrollStates == {"away", "top", "bottom"}
Hits == {"null", "outside", "inside"}
Apis == {"caretRangeFromPoint", "caretPositionFromPoint", "none"}

\* The position the document finds at the point the code computes from rect and
\* the container's box: nothing, a position in the toolbar drawn over the
\* container, or a position on the container's first line (forward) or last
\* line (reverse).
positionAt(h, isReverse) ==
    IF h = "null" THEN <<>>
    ELSE IF h = "outside" THEN <<Caret(Toolbar, 0)>>
    ELSE IF isReverse THEN <<Caret(5, 0)>>
    ELSE <<Caret(3, 1)>>

\* The polyfill.  [threw |-> TRUE] is the TypeError of reading point.offsetNode
\* when caretPositionFromPoint answers null.
caretRangeFromPoint(a, h, isReverse) ==
    IF a = "caretRangeFromPoint"
    THEN [threw |-> FALSE, range |-> positionAt(h, isReverse)]
    ELSE IF a # "caretPositionFromPoint"
    THEN [threw |-> FALSE, range |-> <<>>]
    ELSE LET point == positionAt(h, isReverse)
         IN  IF Len(point) = 0 THEN [threw |-> TRUE, range |-> <<>>]
             ELSE [threw |-> FALSE,
                   range |-> <<collapse(Range(point[1].startContainer, point[1].startOffset,
                                              point[1].startContainer, point[1].startOffset),
                                        TRUE)>>]

\* container.scrollIntoView( isReverse ): alignToTop = isReverse
scrollIntoView(isReverse) == IF isReverse THEN "top" ELSE "bottom"

\* Lines 212-225 of the frame at nesting depth `level`: the guard, and the
\* elevation of the container
enter(c, isReverse, rect, level) ==
    IF rect = NoRect \/ ~dom.isContentEditable[c]
    THEN /\ placeCaretAtHorizontalEdge(c, isReverse)
         /\ pc' = "idle"
         /\ depth' = 0
         /\ UNCHANGED <<zIndex, range>>
    ELSE /\ zIndex' = Elevated
         /\ pc' = "resolve"
         /\ depth' = level
         /\ UNCHANGED <<selection, inputSel, activeElement, range>>

\* Line 227: const range = caretRangeFromPoint( document, x, y )
Resolve ==
    /\ pc = "resolve"
    /\ LET r == caretRangeFromPoint(api, hit[scroll], call.isReverse)
       IN  IF r.threw
           THEN /\ threw' = TRUE
                /\ pc' = "idle"
                /\ depth' = 0
                /\ range' = range
           ELSE /\ range' = r.range
                /\ pc' = "resolved"
                /\ UNCHANGED <<threw, depth>>
    /\ UNCHANGED <<call, ret, scrolls>>
    /\ UNCHANGED <<selVars, domVars, twiceVars, imageVars>>

\* Faulty variant of the completion: the nested call may scroll again
Complete_keepsScrolling ==
    /\ pc = "resolved"
    /\ zIndex' = ""
    /\ IF Len(range) = 0 \/ ~contains(dom, container, range[1].startContainer)
       THEN IF call.mayUseScroll
            THEN /\ scroll' = scrollIntoView(call.isReverse)
                 /\ scrolls' = scrolls + 1
                 /\ call' = call
                 /\ depth' = depth + 1
                 /\ pc' = "enter"
                 /\ UNCHANGED <<selection, inputSel, activeElement>>
            ELSE /\ placeCaretAtHorizontalEdge(container, call.isReverse)
                 /\ pc' = "idle"
                 /\ depth' = 0
                 /\ UNCHANGED <<scroll, scrolls, call>>
       ELSE /\ selection' = addRange(removeAllRanges(
                                addRange(removeAllRanges(selection), range[1])), range[1])
            /\ activeElement' = container
            /\ pc' = "idle"
            /\ depth' = 0
            /\ UNCHANGED <<inputSel, scroll, scrolls, call>>
    /\ UNCHANGED <<ret, range, threw>>
    /\ UNCHANGED <<domVars, twiceVars, imageVars>>

\* Faulty variant of the completion: after scrolling it falls back without a retry
Complete_noRetry ==
    /\ pc = "resolved"
    /\ zIndex' = ""
    /\ IF Len(range) = 0 \/ ~contains(dom, container, range[1].startContainer)
       THEN IF call.mayUseScroll
            THEN /\ scroll' = scrollIntoView(call.isReverse)
                 /\ scrolls' = scrolls + 1
                 /\ placeCaretAtHorizontalEdge(container, call.isReverse)
                 /\ pc' = "idle"
                 /\ depth' = 0
                 /\ UNCHANGED call
            ELSE /\ placeCaretAtHorizontalEdge(container, call.isReverse)
                 /\ pc' = "idle"
                 /\ depth' = 0
                 /\ UNCHANGED <<scroll, scrolls, call>>
       ELSE /\ selection' = addRange(removeAllRanges(
                                addRange(removeAllRanges(selection), range[1])), range[1])
            /\ activeElement' = container
            /\ pc' = "idle"
            /\ depth' = 0
            /\ UNCHANGED <<inputSel, scroll, scrolls, call>>
    /\ UNCHANGED <<ret, range, threw>>
    /\ UNCHANGED <<domVars, twiceVars, imageVars>>

\* Lines 229-251: the z-index reset, then the retry, the fallback or the placement
Complete ==
    /\ pc = "resolved"
    /\ zIndex' = ""
    /\ IF Len(range) = 0 \/ ~contains(dom, container, range[1].startContainer)
       THEN IF call.mayUseScroll
            THEN /\ scroll' = scrollIntoView(call.isReverse)
                 /\ scrolls' = scrolls + 1
                 /\ call' = [call EXCEPT !.mayUseScroll = FALSE]
                 /\ depth' = depth + 1
                 /\ pc' = "enter"
                 /\ UNCHANGED <<selection, inputSel, activeElement>>
            ELSE /\ placeCaretAtHorizontalEdge(container, call.isReverse)
                 /\ pc' = "idle"
                 /\ depth' = 0
                 /\ UNCHANGED <<scroll, scrolls, call>>
       ELSE /\ selection' = addRange(removeAllRanges(
                                addRange(removeAllRanges(selection), range[1])), range[1])
            /\ activeElement' = container
            /\ pc' = "idle"
            /\ depth' = 0
            /\ UNCHANGED <<inputSel, scroll, scrolls, call>>
    /\ UNCHANGED <<ret, range, threw>>
    /\ UNCHANGED <<domVars, twiceVars, imageVars>>

\* Line 236: the recursive call placeCaretAtVerticalEdge( container, isReverse, rect, false )
Reenter ==
    /\ pc = "enter"
    /\ enter(container, call.isReverse, call.rect, depth)
    /\ UNCHANGED <<call, ret, scrolls, threw, scroll>>
    /\ UNCHANGED <<domVars, twiceVars, imageVars>>

\* A top-level call placeCaretAtVerticalEdge( container, isReverse, rect )
placeCaretAtVerticalEdge(isReverse, rect) ==
    /\ pc = "idle"
    /\ call' = [op |-> "placeCaretAtVerticalEdge", isReverse |-> isReverse, rect |-> rect,
                mayUseScroll |-> TRUE, zBefore |-> zIndex]
    /\ threw' = FALSE
    /\ scrolls' = 0
    /\ enter(container, isReverse, rect, 1)
    /\ UNCHANGED <<ret, scroll>>
    /\ UNCHANGED <<domVars, imageVars>>

----------------------------------------------------------------------------
(* The operations as the host calls them *)

\* `call` before any call
NoCall == [op |-> "none", isReverse |-> FALSE, rect |-> NoRect,
           mayUseScroll |-> TRUE, zBefore |-> ""]

\* Faulty variant of the query: it collapses the selection it inspects
IsHorizontalEdgeCall_collapsing(isReverse) ==
    /\ pc = "idle"
    /\ call' = [op |-> "isHorizontalEdge", isReverse |-> isReverse, rect |-> NoRect,
                mayUseScroll |-> TRUE, zBefore |-> zIndex]
    /\ ret' = [isEdge |-> isHorizontalEdge(dom, container, selection, inputSel, isReverse),
               rect |-> NoRect]
    /\ threw' = (ret'.isEdge = "TypeError")
    /\ selection' = IF Len(selection) = 0 THEN selection
                    ELSE <<collapse(selection[1], isReverse)>>
    /\ UNCHANGED <<pc, range, depth, scrolls>>
    /\ UNCHANGED <<inputSel, activeElement, zIndex, scroll>>
    /\ UNCHANGED <<domVars, twiceVars, imageVars>>

IsHorizontalEdgeCall(isReverse) ==
    /\ pc = "idle"
    /\ call' = [op |-> "isHorizontalEdge", isReverse |-> isReverse, rect |-> NoRect,
                mayUseScroll |-> TRUE, zBefore |-> zIndex]
    /\ ret' = [isEdge |-> isHorizontalEdge(dom, container, selection, inputSel, isReverse),
               rect |-> NoRect]
    /\ threw' = (ret'.isEdge = "TypeError")
    /\ UNCHANGED <<pc, range, depth, scrolls>>
    /\ UNCHANGED <<selVars, domVars, twiceVars, imageVars>>

GetVerticalEdgeCall(isReverse, boundingRect, clientRects, editableRect) ==
    /\ pc = "idle"
    /\ call' = [op |-> "getVerticalEdge", isReverse |-> isReverse, rect |-> NoRect,
                mayUseScroll |-> TRUE, zBefore |-> zIndex]
    /\ ret' = getVerticalEdge(dom, container, selection, inputSel, isReverse,
                              boundingRect, clientRects, editableRect)
    /\ threw' = (ret'.isEdge = "TypeError")
    /\ UNCHANGED <<pc, range, depth, scrolls>>
    /\ UNCHANGED <<selVars, domVars, twiceVars, imageVars>>

PlaceCaretAtHorizontalEdgeCall(isReverse) ==
    /\ pc = "idle"
    /\ call' = [op |-> "placeCaretAtHorizontalEdge", isReverse |-> isReverse, rect |-> NoRect,
                mayUseScroll |-> TRUE, zBefore |-> zIndex]
    /\ placeCaretAtHorizontalEdge(container, isReverse)
    /\ threw' = FALSE
    /\ UNCHANGED <<pc, ret, range, depth, scrolls, zIndex, scroll>>
    /\ UNCHANGED <<domVars, twiceVars, imageVars>>

PlaceCaretAtVerticalEdgeCall(isReverse, rect) ==
    /\ placeCaretAtVerticalEdge(isReverse, rect)
    /\ UNCHANGED twiceVars

----------------------------------------------------------------------------
(* ImageBlock *)

Undefined == "undefined"
Aligns == {Undefined, "left", "center", "right", "wide", "full"}
Urls == {Undefined, "a.png", "b.png"}
Alts == {Undefined, "alt"}
Hrefs == {Undefined, "href"}
NoSize == <<>>
Sizes == {NoSize} \cup {<<n>> : n \in 1 .. MaxSize}

\* const isResizable = [ 'wide', 'full' ].indexOf( align ) === -1
isResizable(align) == align \notin {"wide", "full"}

\* Faulty variant of updateAlignment: wide and full keep the size
updateAlignment_keepsSize(attrs, nextAlign) == [attrs EXCEPT !.align = nextAlign]

\* what updateAlignment hands to setAttributes
updateAlignment(attrs, nextAlign) ==
    IF nextAlign \in {"wide", "full"}
    THEN [attrs EXCEPT !.width = NoSize, !.height = NoSize, !.align = nextAlign]
    ELSE [attrs EXCEPT !.align = nextAlign]

\* A handler of the block: it is recorded as the last call, and touches nothing else
ImageFrame(name) ==
    /\ call' = [NoCall EXCEPT !.op = name]
    /\ UNCHANGED <<pc, ret, range, depth, scrolls, threw>>
    /\ UNCHANGED <<domVars, selVars, twiceVars>>

\* The alignment toolbar is rendered while the block has focus
UpdateAlignment(nextAlign) ==
    /\ focus
    /\ attributes' = updateAlignment(attributes, nextAlign)
    /\ UNCHANGED <<focus, image>>
    /\ ImageFrame("updateAlignment")

\* The ResizableBox is rendered when there is a url, the block is resizable
\* and ImageSize reports a width within the container
OnResize(clientWidth, clientHeight) ==
    /\ attributes.url # Undefined
    /\ isResizable(attributes.align)
    /\ image
    /\ attributes' = [attributes EXCEPT !.width = <<clientWidth>>, !.height = <<clientHeight>>]
    /\ UNCHANGED <<focus, image>>
    /\ ImageFrame("onResize")

UpdateAlt(newAlt) ==
    /\ focus
    /\ attributes.url # Undefined
    /\ attributes' = [attributes EXCEPT !.alt = newAlt]
    /\ UNCHANGED <<focus, image>>
    /\ ImageFrame("updateAlt")

OnSetHref(value) ==
    /\ focus
    /\ attributes' = [attributes EXCEPT !.href = value]
    /\ UNCHANGED <<focus, image>>
    /\ ImageFrame("onSetHref")

UpdateImageURL(url) ==
    /\ focus
    /\ attributes.url # Undefined
    /\ attributes' = [attributes EXCEPT !.url = url]
    /\ UNCHANGED <<focus, image>>
    /\ ImageFrame("updateImageURL")

\* onSelectImage( media ): url and alt of the chosen media (caption and id are
\* set too and read by none of the handlers here)
OnSelectImage(url, alt) ==
    /\ focus \/ attributes.url = Undefined
    /\ attributes' = [attributes EXCEPT !.url = url, !.alt = alt]
    /\ UNCHANGED <<focus, image>>
    /\ ImageFrame("onSelectImage")

\* The host giving the block the focus (also through <img onClick={ setFocus } />)
\* or taking it away
SetFocus(value) ==
    /\ focus' = value
    /\ UNCHANGED <<attributes, image>>
    /\ ImageFrame("setFocus")

\* ImageSize measuring the image again
Measure(within) ==
    /\ image' = within
    /\ UNCHANGED <<attributes, focus>>
    /\ ImageFrame("ImageSize")

----------------------------------------------------------------------------
(* Fixture: one document with the three kinds of container *)

FixtureNodes == {Document, Rich, 3, 4, 5, Toolbar, Input, Plain}

\* document
\*   div contenteditable (Rich):  "ab"(3)  <b>(4) "c"(5) </b>
\*   div toolbar (Toolbar)
\*   input (Input)
\*   div (Plain)
FixtureDom(tag, len) ==
    [parent |-> [n \in FixtureNodes |->
                    CASE n = Document -> Null
                      [] n \in {3, 4} -> Rich
                      [] n = 5 -> 4
                      [] OTHER -> Document],
     nodeType |-> [n \in FixtureNodes |-> IF n \in {3, 5} THEN "TEXT_NODE" ELSE "ELEMENT_NODE"],
     tagName |-> [n \in FixtureNodes |->
                    CASE n = Input -> tag
                      [] n = 4 -> "B"
                      [] n \in {3, 5} -> "#text"
                      [] n = Document -> "#document"
                      [] OTHER -> "DIV"],
     isContentEditable |-> [n \in FixtureNodes |-> n \in {Rich, 3, 4, 5}],
     text |-> [n \in FixtureNodes |-> CASE n = 3 -> 2 [] n = 5 -> 1 [] OTHER -> 0],
     value |-> [n \in FixtureNodes |-> IF n = Input THEN len ELSE 0]]

\* Selections the document may hold before a call
SelStates ==
    { <<>>, <<Caret(3, 0)>>, <<Caret(3, 1)>>, <<Caret(5, 1)>>, <<Caret(Plain, 0)>>,
      <<Range(3, 0, 5, 1)>> }

\* The fixture's layout: lines are 2 high, the container holds two of them
containerTop(s) == CASE s = "top" -> 0 [] s = "bottom" -> 4 [] OTHER -> 12
FixtureEditableRect(s) == Rect(containerTop(s), 4, 0, 10)
FixtureBoundingRect(sel, s) ==
    IF Len(sel) = 0 THEN FixtureEditableRect(s)
    ELSE IF sel[1].startContainer = 4 THEN Rect(containerTop(s) + 2, 2, 2, 1)
    ELSE IF sel[1].startContainer = Rich THEN FixtureEditableRect(s)
    ELSE Rect(20, 2, 0, 10)
FixtureClientRects(sel, s) ==
    IF Len(sel) = 0 THEN <<>>
    ELSE IF sel[1].startContainer = 3 THEN <<Rect(containerTop(s), 2, sel[1].startOffset, 0)>>
    ELSE IF sel[1].startContainer = 5 THEN <<Rect(containerTop(s) + 2, 2, sel[1].startOffset, 0)>>
    ELSE <<>>

\* The rect argument of placeCaretAtVerticalEdge: absent, or the caret of the block left
RectArgs == {NoRect, <<Rect(0, 2, 1, 0)>>}

NoGeometry == [boundingRect |-> Rect(0, 0, 0, 0), clientRects |-> <<>>,
               editableRect |-> Rect(0, 0, 0, 0)]
NoAttributes == [url |-> Undefined, alt |-> Undefined, href |-> Undefined,
                 align |-> Undefined, width |-> NoSize, height |-> NoSize]

InitCall ==
    /\ pc = "idle"
    /\ call = NoCall
    /\ ret = [isEdge |-> "false", rect |-> NoRect]
    /\ range = <<>>
    /\ depth = 0
    /\ scrolls = 0
    /\ threw = FALSE
    /\ calls = 0
    /\ first = <<>>

InitNoImage ==
    /\ attributes = NoAttributes
    /\ focus = FALSE
    /\ image = FALSE

InitNoWorld ==
    /\ api = "none"
    /\ hit = [s \in ScrollStates |-> "null"]
    /\ scroll = "top"
    /\ zIndex = ""
    /\ geometry = NoGeometry

Worlds ==
    {<<"none", [s \in ScrollStates |-> "null"]>>}
    \cup ((Apis \ {"none"}) \X [ScrollStates -> Hits])

\* An INPUT or TEXTAREA container
InitField(maxLen) ==
    /\ \E tag \in {"INPUT", "TEXTAREA"}, len \in 0 .. maxLen : dom = FixtureDom(tag, len)
    /\ container = Input
    /\ \E s \in 0 .. dom.value[Input], e \in 0 .. dom.value[Input] :
          /\ s <= e
          /\ inputSel = [selectionStart |-> s, selectionEnd |-> e]

\* A non-editable container
InitPlain ==
    /\ dom = FixtureDom("INPUT", 0)
    /\ container = Plain
    /\ inputSel = [selectionStart |-> 0, selectionEnd |-> 0]

\* The content-editable container, in any viewport position, under any document
InitRich ==
    /\ dom = FixtureDom("INPUT", 0)
    /\ container = Rich
    /\ inputSel = [selectionStart |-> 0, selectionEnd |-> 0]
    /\ \E w \in Worlds : api = w[1] /\ hit = w[2]
    /\ scroll \in ScrollStates
    /\ zIndex \in {"", "1"}
    /\ geometry = NoGeometry

Init ==
    /\ InitCall
    /\ InitNoImage
    /\ selection \in SelStates
    /\ activeElement \in {Null, Rich, Input}
    /\ \/ InitField(MaxLength) /\ InitNoWorld
       \/ InitPlain /\ InitNoWorld
       \/ InitRich

Next ==
    \/ \E isReverse \in BOOLEAN : IsHorizontalEdgeCall(isReverse)
    \/ \E isReverse \in BOOLEAN :
          GetVerticalEdgeCall(isReverse, FixtureBoundingRect(selection, scroll),
                              FixtureClientRects(selection, scroll), FixtureEditableRect(scroll))
    \/ \E isReverse \in BOOLEAN : PlaceCaretAtHorizontalEdgeCall(isReverse)
    \/ \E isReverse \in BOOLEAN, rect \in RectArgs : PlaceCaretAtVerticalEdgeCall(isReverse, rect)
    \/ Resolve
    \/ Complete
    \/ Reenter

Spec == Init /\ [][Next]_vars

FairSpec == Spec /\ WF_vars(Resolve \/ Complete \/ Reenter)

----------------------------------------------------------------------------
(* isHorizontalEdge on INPUT and TEXTAREA containers, for every value and selection *)

InitFieldOnly ==
    /\ InitCall
    /\ InitNoImage
    /\ InitNoWorld
    /\ InitField(MaxValue)
    /\ selection = <<>>
    /\ activeElement = Input

NextField == \E isReverse \in BOOLEAN : IsHorizontalEdgeCall(isReverse)

SpecField == InitFieldOnly /\ [][NextField]_vars

----------------------------------------------------------------------------
(* isHorizontalEdge on a content-editable container, for every tree and caret *)

InnerNodes == 3 .. MaxNode
RichNodes == 1 .. MaxNode
NodeTypes == {"ELEMENT_NODE", "TEXT_NODE"}

ParentMaps(typ) ==
    {par \in [InnerNodes -> Rich .. MaxNode] :
        \A n \in InnerNodes : par[n] < n /\ (par[n] = Rich \/ typ[par[n]] = "ELEMENT_NODE")}

TextMaps(typ) ==
    {txt \in [InnerNodes -> 0 .. MaxLength] :
        \A n \in InnerNodes : typ[n] = "ELEMENT_NODE" => txt[n] = 0}

RichDom(par, typ, txt) ==
    [parent |-> [n \in RichNodes |->
                    IF n = Document THEN Null ELSE IF n = Rich THEN Document ELSE par[n]],
     nodeType |-> [n \in RichNodes |-> IF n \in InnerNodes THEN typ[n] ELSE "ELEMENT_NODE"],
     tagName |-> [n \in RichNodes |->
                    IF n = Document THEN "#document"
                    ELSE IF n = Rich THEN "DIV"
                    ELSE IF typ[n] = "TEXT_NODE" THEN "#text" ELSE "SPAN"],
     isContentEditable |-> [n \in RichNodes |-> n # Document],
     text |-> [n \in RichNodes |-> IF n \in InnerNodes THEN txt[n] ELSE 0],
     value |-> [n \in RichNodes |-> 0]]

RichTrees ==
    UNION { UNION { {RichDom(par, typ, txt) : txt \in TextMaps(typ)} : par \in ParentMaps(typ) }
            : typ \in [InnerNodes -> NodeTypes] }

\* No selection, a caret anywhere in the container, or a selection from such a
\* position to the end of the container
RichSelections(d) ==
    {<<>>}
    \cup {<<Caret(n, o)>> : n \in Rich .. MaxNode, o \in 0 .. MaxNode + MaxLength}
    \cup {<<Range(n, o, Rich, Cardinality(Children(d, Rich)))>> :
             n \in Rich .. MaxNode, o \in 0 .. MaxNode + MaxLength}

ValidSelection(d, sel) ==
    Len(sel) = 1 =>
        /\ sel[1].startOffset \in Offsets(d, sel[1].startContainer)
        /\ sel[1].endOffset \in Offsets(d, sel[1].endContainer)

InitRichOnly ==
    /\ InitCall
    /\ InitNoImage
    /\ InitNoWorld
    /\ dom \in RichTrees
    /\ container = Rich
    /\ inputSel = [selectionStart |-> 0, selectionEnd |-> 0]
    /\ selection \in RichSelections(dom)
    /\ ValidSelection(dom, selection)
    /\ activeElement = Rich

NextRich == \E isReverse \in BOOLEAN : IsHorizontalEdgeCall(isReverse)

SpecRich == InitRichOnly /\ [][NextRich]_vars

----------------------------------------------------------------------------
(* getVerticalEdge on the content-editable container, for every layout *)

Rects == {Rect(t, h, 0, 1) : t \in 0 .. MaxCoord, h \in 0 .. MaxCoord}

Geometries ==
    [boundingRect : Rects, clientRects : {<<>>} \cup {<<r>> : r \in Rects}, editableRect : Rects]

InitVerticalOnly ==
    /\ InitCall
    /\ InitNoImage
    /\ api = "none"
    /\ hit = [s \in ScrollStates |-> "null"]
    /\ scroll = "top"
    /\ zIndex = ""
    /\ dom = FixtureDom("INPUT", 0)
    /\ container = Rich
    /\ inputSel = [selectionStart |-> 0, selectionEnd |-> 0]
    /\ selection \in {<<>>, <<Caret(3, 1)>>, <<Caret(Rich, 0)>>, <<Range(3, 0, 5, 1)>>}
    /\ activeElement = Rich
    /\ geometry \in Geometries

NextVertical ==
    \E isReverse \in BOOLEAN :
        GetVerticalEdgeCall(isReverse, geometry.boundingRect, geometry.clientRects,
                            geometry.editableRect)

SpecVertical == InitVerticalOnly /\ [][NextVertical]_vars

----------------------------------------------------------------------------
(* placeCaretAtVerticalEdge called twice in succession with the same arguments *)

FirstCall(isReverse, rect) ==
    /\ calls = 0
    /\ placeCaretAtVerticalEdge(isReverse, rect)
    /\ calls' = 1
    /\ first' = first

SecondCall ==
    /\ calls = 1
    /\ pc = "idle"
    /\ placeCaretAtVerticalEdge(call.isReverse, call.rect)
    /\ calls' = 2
    /\ first' = <<selection, inputSel, scrolls>>

NextTwice ==
    \/ \E isReverse \in BOOLEAN, rect \in RectArgs : FirstCall(isReverse, rect)
    \/ SecondCall
    \/ Resolve
    \/ Complete
    \/ Reenter

SpecTwice == Init /\ [][NextTwice]_vars

----------------------------------------------------------------------------
(* The image block's handlers *)

AttributeSets ==
    [url : Urls, alt : Alts, href : Hrefs, align : Aligns, width : Sizes, height : Sizes]

InitImage ==
    /\ InitCall
    /\ InitNoWorld
    /\ dom = FixtureDom("INPUT", 0)
    /\ container = Plain
    /\ inputSel = [selectionStart |-> 0, selectionEnd |-> 0]
    /\ selection = <<>>
    /\ activeElement = Null
    /\ attributes \in AttributeSets
    /\ ~isResizable(attributes.align) => attributes.width = NoSize /\ attributes.height = NoSize
    /\ focus \in BOOLEAN
    /\ image \in BOOLEAN

NextImage ==
    \/ \E nextAlign \in Aligns : UpdateAlignment(nextAlign)
    \/ \E w \in 1 .. MaxSize, h \in 1 .. MaxSize : OnResize(w, h)
    \/ \E newAlt \in Alts : UpdateAlt(newAlt)
    \/ \E value \in Hrefs : OnSetHref(value)
    \/ \E url \in Urls \ {Undefined} : UpdateImageURL(url)
    \/ \E url \in Urls \ {Undefined}, alt \in Alts : OnSelectImage(url, alt)
    \/ \E value \in BOOLEAN : SetFocus(value)
    \/ \E within \in BOOLEAN : Measure(within)

SpecImage == InitImage /\ [][NextImage]_vars

----------------------------------------------------------------------------
(* Properties *)

Queries == {"isHorizontalEdge", "getVerticalEdge"}
Placements == {"placeCaretAtHorizontalEdge", "placeCaretAtVerticalEdge"}

\* a placement call has returned or raised
Placed == pc = "idle" /\ call.op \in Placements

\* C1: a call of isHorizontalEdge or getVerticalEdge leaves the document
\* selection, the input's selectionStart/selectionEnd, the focused element and
\* the container's z-index as they were, whatever the container and selection.
C1_QueriesMutateNothing ==
    [][(pc = "idle" /\ pc' = "idle" /\ call' # call /\ call'.op \in Queries)
          => UNCHANGED <<selection, inputSel, activeElement, zIndex>>]_vars

\* C1 witness: getVerticalEdge has answered on the content-editable container
\* holding a non-collapsed selection
C1_Witness ==
    /\ call.op = "getVerticalEdge"
    /\ container = Rich
    /\ selection = <<Range(3, 0, 5, 1)>>
    /\ ret.isEdge = "false"

\* exactly one range, collapsed, inside the container (for a text field: its
\* own selectionStart and selectionEnd coincide)
OneCollapsedInside ==
    IF isTextField(dom, container)
    THEN inputSel.selectionStart = inputSel.selectionEnd
    ELSE /\ Len(selection) = 1
         /\ collapsed(selection[1])
         /\ contains(dom, container, selection[1].startContainer)

\* C2 (as claimed): after any call of placeCaretAtHorizontalEdge or
\* placeCaretAtVerticalEdge the selection is exactly one collapsed range inside
\* the container.
C2_OneCollapsedSelectionAfterPlacement == Placed => OneCollapsedInside

C4_ZIndexRestored ==
    /\ pc \notin {"resolve", "resolved"} => zIndex # Elevated
    /\ (/\ pc = "idle"
        /\ call.op = "placeCaretAtVerticalEdge"
        /\ call.rect # NoRect
        /\ dom.isContentEditable[container]) => zIndex = call.zBefore

\* C5: the second of two successive calls of placeCaretAtVerticalEdge with the
\* same container, direction and rect leaves the selection the first one left.
C5_SecondCallSameSelection ==
    (calls = 2 /\ pc = "idle") => (selection = first[1] /\ inputSel = first[2])

\* C5 witness: the first call scrolled and placed the caret at the resolved
\* point, and the second call is over
C5_Witness ==
    /\ calls = 2
    /\ pc = "idle"
    /\ first[3] = 1
    /\ call.rect # NoRect
    /\ selection = <<Caret(3, 1)>>

\* C6 (as claimed): no placement call raises, and when one is over the
\* container has the focus.
C6_NoThrowAndFocused ==
    /\ call.op \in Placements => ~threw
    /\ Placed => activeElement = container

\* the nodes on the way from the caret's node up to, not including, the container
PathNodes(d, c, node) ==
    {n \in Nodes(d) : n # c /\ contains(d, c, n) /\ contains(d, n, node)}

\* every step of that way goes through the first (reverse) or last (forward) child link
ChainThrough(d, c, node, isReverse) ==
    \A n \in PathNodes(d, c, node) :
        n = (IF isReverse THEN firstChild(d, d.parent[n]) ELSE lastChild(d, d.parent[n]))

\* isHorizontalEdge has answered for a caret or selection inside the rich container
RichAnswered ==
    /\ call.op = "isHorizontalEdge"
    /\ dom.isContentEditable[container]
    /\ ~isTextField(dom, container)
    /\ Len(selection) = 1 => contains(dom, container, selection[1].startContainer)

C8_FieldEdge ==
    (call.op = "isHorizontalEdge" /\ isTextField(dom, container)) =>
        /\ ret.isEdge = "true" <=>
              /\ inputSel.selectionStart = inputSel.selectionEnd
              /\ call.isReverse => inputSel.selectionStart = 0
              /\ ~call.isReverse => inputSel.selectionStart = dom.value[container]
        /\ (dom.value[container] = 0 /\ inputSel.selectionStart = inputSel.selectionEnd)
              => ret.isEdge = "true"

\* C8 witness: "hello" with the caret at 5, asked forward
C8_Witness ==
    /\ call.op = "isHorizontalEdge"
    /\ isTextField(dom, container)
    /\ dom.value[container] = 5
    /\ inputSel = [selectionStart |-> 5, selectionEnd |-> 5]
    /\ ~call.isReverse
    /\ ret.isEdge = "true"

\* getVerticalEdge has answered on the rich container for a collapsed selection
\* whose caret rectangle the layout resolves
VerticalAnswered ==
    /\ call.op = "getVerticalEdge"
    /\ dom.isContentEditable[container]
    /\ ~isTextField(dom, container)
    /\ Len(selection) = 1
    /\ collapsed(selection[1])
    /\ rangeRectOf(dom, selection[1], geometry.boundingRect, geometry.clientRects) # NoRect

\* C9: then isEdge is true exactly when rect.top - height/2 <= container.top
\* (reverse) or rect.bottom + height/2 >= container.bottom (forward), and the
\* caret rectangle is returned either way.
C9_VerticalEdgeWithinHalfHeight ==
    VerticalAnswered =>
        LET r == rangeRectOf(dom, selection[1], geometry.boundingRect, geometry.clientRects)[1]
            e == geometry.editableRect
        IN  /\ ret.rect = <<r>>
            /\ ret.isEdge = "true" <=>
                  IF call.isReverse
                  THEN 2 * r.top - r.height <= 2 * e.top
                  ELSE 2 * (r.top + r.height) + r.height >= 2 * (e.top + e.height)

\* C9 witness: a caret one unit below the container's top counts as at the top
\* edge only thanks to the buffer
C9_Witness ==
    /\ VerticalAnswered
    /\ call.isReverse
    /\ ret.isEdge = "true"
    /\ ret.rect # NoRect
    /\ ret.rect[1].top > geometry.editableRect.top

\* C10: whenever align is wide or full, width and height are undefined; a
\* change of alignment to any other value leaves width and height alone; width
\* and height are set only while align is neither wide nor full.
C10_WideOrFullHasNoSize ==
    /\ [](~isResizable(attributes.align)
             => attributes.width = NoSize /\ attributes.height = NoSize)
    /\ [][(attributes'.align # attributes.align /\ isResizable(attributes'.align))
             => (attributes'.width = attributes.width /\ attributes'.height = attributes.height)]_vars
    /\ [][(attributes'.width # attributes.width \/ attributes'.height # attributes.height)
             => (\/ isResizable(attributes.align) /\ isResizable(attributes'.align)
                 \/ attributes'.width = NoSize /\ attributes'.height = NoSize)]_vars

\* C10 witness: updateAlignment has just aligned a measurable image wide, and
\* it carries no size
C10_Witness ==
    /\ call.op = "updateAlignment"
    /\ attributes.align = "wide"
    /\ attributes.url # Undefined
    /\ attributes.width = NoSize
    /\ image

============================================================================
